---- MODULE Spec2Model ----
(***************************************************************************)
(* A model of the photo-portfolio backend.                                 *)
(*                                                                         *)
(* src/backend/app.py holds two revisions of the Flask application, one    *)
(* after the other.  The first (lines 1-1030, "revision A") ends with      *)
(* app.run() and holds the ORM models with folder_id, the /api/folders and *)
(* /api/photos routes and the GCS reindexing endpoint.  The second (lines  *)
(* 1033-1609, "revision B") holds the upload and delete handlers working   *)
(* under _db_lock.  A call is resolved inside the revision that holds the  *)
(* caller.  Both revisions work on the same tables 'folders' and 'photos'  *)
(* and on the same bucket.                                                 *)
(*                                                                         *)
(* Strings are sequences of one-character strings, so that split,          *)
(* startswith, endswith, sorted and secure_filename are computed the way   *)
(* Python computes them.                                                   *)
(***************************************************************************)
EXTENDS Integers, Sequences, FiniteSets, TLC

VARIABLES
    store,          \* the bucket: the set of blob names (object keys)
    folders,        \* table 'folders': rows [id, name]
    photos,         \* table 'photos': rows [id, folder_id, filename, gcs_path];
                    \* revision B's rows, taken step by step, keep the
                    \* folder name: [id, folder, filename, gcs_path]
    nextFolderId,   \* the next value of folders.id (autoincrement)
    nextPhotoId,    \* the next value of photos.id (autoincrement)
    last,           \* what the last request was and what it answered
    reqs,           \* the requests in flight, one per worker thread
    db_lock,        \* revision B's _db_lock: 0, or the worker that holds it
    mFolders,       \* FastAPI application, table 'folders': rows [id, name]
    mPhotos,        \* FastAPI application, table 'photos': rows [id, folder_id,
                    \* gcs_path], with owner_id where users are modelled
    mNextFolderId,  \* FastAPI application, the next folders.id
    mNextPhotoId,   \* FastAPI application, the next photos.id
    session,        \* the Session: the folder.photos collections it has loaded
    sqlite_photos,  \* table 'photos' of the SQLite file DB_PATH, which
                    \* annotate_locations works on: id -> [url, location_tag]
    mUsers,         \* FastAPI application, table 'users': rows [id]
    mNextUserId,    \* FastAPI application, the next users.id
    gcs_client,     \* the GCSClient singleton of app/utils/gcs.py
    startup,        \* the database connection loop run at process start
    driver          \* auto_annotate.py: the loop of annotate_all_batches

flaskVars == <<store, folders, photos, nextFolderId, nextPhotoId>>
workerVars == <<reqs, db_lock>>
ormVars == <<mFolders, mPhotos, mNextFolderId, mNextPhotoId, session>>
userVars == <<mUsers, mNextUserId>>
procVars == <<gcs_client, startup, driver>>
vars == <<store, folders, photos, nextFolderId, nextPhotoId, last,
          reqs, db_lock, mFolders, mPhotos, mNextFolderId, mNextPhotoId, session,
          sqlite_photos, mUsers, mNextUserId, gcs_client, startup, driver>>

(***************************************************************************)
(* Bounds of the model.                                                    *)
(***************************************************************************)
MaxFolderRows == 2      \* folder rows ever inserted
MaxPhotoRows == 2       \* photo rows ever inserted
NumWorkers == 2         \* worker threads serving requests at the same time
MaxOrmFolders == 2      \* folder rows ever inserted through the ORM models
MaxOrmPhotos == 2       \* photo rows ever inserted through the ORM models
MaxFailing == 1         \* blobs or files that fail in one request

(***************************************************************************)
(* Python strings.                                                         *)
(***************************************************************************)
\* ord(c) for the characters the model uses
Ord(c) ==
    CASE c = " " -> 32 [] c = "." -> 46 [] c = "/" -> 47 [] c = "0" -> 48 [] c = "1" -> 49
      [] c = "C" -> 67 [] c = "G" -> 71 [] c = "J" -> 74 [] c = "N" -> 78
      [] c = "P" -> 80 [] c = "_" -> 95 [] c = "a" -> 97
      [] c = "b" -> 98 [] c = "d" -> 100 [] c = "e" -> 101 [] c = "f" -> 102
      [] c = "g" -> 103 [] c = "h" -> 104 [] c = "j" -> 106
      [] c = "l" -> 108 [] c = "o" -> 111 [] c = "p" -> 112 [] c = "r" -> 114
      [] c = "s" -> 115 [] c = "t" -> 116 [] c = "u" -> 117

\* s.startswith(p)
StartsWith(s, p) == Len(p) <= Len(s) /\ SubSeq(s, 1, Len(p)) = p

\* s.endswith(p)
EndsWith(s, p) == Len(p) <= Len(s) /\ SubSeq(s, Len(s) - Len(p) + 1, Len(s)) = p

\* s.split(sep) for a one-character separator: ''.split('/') = ['']
RECURSIVE Split(_, _)
Split(s, sep) ==
    IF s = <<>> THEN << <<>> >>
    ELSE LET rest == Split(Tail(s), sep) IN
         IF Head(s) = sep THEN << <<>> >> \o rest
         ELSE << <<Head(s)>> \o Head(rest) >> \o Tail(rest)

\* a < b on Python strings (by code point, a proper prefix first)
RECURSIVE StrLess(_, _)
StrLess(a, b) ==
    IF b = <<>> THEN FALSE
    ELSE IF a = <<>> THEN TRUE
    ELSE IF Head(a) = Head(b) THEN StrLess(Tail(a), Tail(b))
    ELSE Ord(Head(a)) < Ord(Head(b))

\* a variant of sorted(S) that takes the names from the largest down
RECURSIVE SortedDescending(_)
SortedDescending(S) ==
    IF S = {} THEN <<>>
    ELSE LET m == CHOOSE x \in S : \A y \in S \ {x} : StrLess(y, x)
         IN <<m>> \o SortedDescending(S \ {m})

\* sorted(S) for a set of strings
RECURSIVE Sorted(_)
Sorted(S) ==
    IF S = {} THEN <<>>
    ELSE LET m == CHOOSE x \in S : \A y \in S \ {x} : StrLess(x, y)
         IN <<m>> \o Sorted(S \ {m})

(***************************************************************************)
(* Program constants and the values a nullable column holds.               *)
(***************************************************************************)
\* the prefix 'folders/' that reindex_gcs lists
FoldersPrefix == <<"f", "o", "l", "d", "e", "r", "s", "/">>

\* SQL NULL / Python None in a string column (no string of the model)
NULL == <<"<NULL>">>

\* the names and keys used as inputs
NameN == <<"N">>
NameC == <<"C">>
FileA == <<"a">>
FileHidden == <<".", "d">>

Key(folder, file) == FoldersPrefix \o folder \o <<"/">> \o file

\* the keys a client can write into the bucket directly
DirectKeys ==
    { Key(NameN, FileA), Key(NameC, FileA),   \* folders/N/a, folders/C/a
      Key(NameN, FileHidden),                 \* folders/N/.d
      Key(NameN, <<>>),                       \* folders/N/  (a folder marker)
      FoldersPrefix \o NameC }                \* folders/C   (one segment only)

(***************************************************************************)
(* The metadata store.  A database value db is a record                    *)
(* [folders, photos, nf, np]: the two tables and the two id sequences.     *)
(***************************************************************************)
\* Python truthiness of a nullable string column: neither None nor ''
Truthy(s) == s # NULL /\ s # <<>>

\* db.query(Folder).filter(Folder.name == name): name is unique, so the
\* rows found are at most one
FoldersNamed(db, name) == {f \in db.folders : f.name = name}

\* the insert into a table whose name column is not declared unique
InsertFolderRowNotUnique(db, name) ==
    [db |-> [db EXCEPT !.folders = @ \cup {[id |-> db.nf, name |-> name]},
                       !.nf = @ + 1],
     ok |-> TRUE]

\* db.add(Folder(name=name)); db.commit() on the table whose name column is
\* declared unique=True: the commit of a second row of the name is refused
\* (IntegrityError) and leaves the table as it was
InsertFolderRow(db, name) ==
    IF FoldersNamed(db, name) # {}
    THEN [db |-> db, ok |-> FALSE]
    ELSE [db |-> [db EXCEPT !.folders = @ \cup {[id |-> db.nf, name |-> name]},
                            !.nf = @ + 1],
          ok |-> TRUE]

\* revision A, add_folder_to_db: insert the folder unless a row has the
\* name; a refused commit is rolled back and reported as (False, message)
AddFolderToDbA(db, name) ==
    IF FoldersNamed(db, name) # {}
    THEN [db |-> db, success |-> TRUE, existed |-> TRUE]
    ELSE LET r == InsertFolderRow(db, name)
         IN [db |-> r.db, success |-> r.ok, existed |-> FALSE]

\* a variant of the existence check that forgets the folder
PhotoExistsAnyFolder(db, folder_id, filename, gcs_path) ==
    \E p \in db.photos : p.filename = filename

\* the existence check of add_photo_to_db: a row with this folder_id and
\* this filename
PhotoExists(db, folder_id, filename, gcs_path) ==
    \E p \in db.photos : p.folder_id = folder_id /\ p.filename = filename

\* a variant of add_photo_to_db that brings the row it finds up to date
AddPhotoToDbAUpsert(db, folder_name, filename, gcs_path) ==
    IF FoldersNamed(db, folder_name) = {}
    THEN [db |-> db, outcome |-> "notfound"]
    ELSE LET folder == CHOOSE f \in FoldersNamed(db, folder_name) : TRUE
             found == {p \in db.photos :
                         p.folder_id = folder.id /\ p.filename = filename}
         IN IF found # {}
            THEN [db |-> [db EXCEPT
                            !.photos = (@ \ found) \cup
                                {[p EXCEPT !.gcs_path = gcs_path] : p \in found}],
                  outcome |-> "exists"]
            ELSE [db |-> [db EXCEPT
                            !.photos = @ \cup {[id |-> db.np,
                                                folder_id |-> folder.id,
                                                filename |-> filename,
                                                gcs_path |-> gcs_path]},
                            !.np = @ + 1],
                  outcome |-> "added"]

\* revision A, add_photo_to_db: "notfound" (no such folder), "exists", or
\* "added" with the new row inserted
AddPhotoToDbA(db, folder_name, filename, gcs_path) ==
    IF FoldersNamed(db, folder_name) = {}
    THEN [db |-> db, outcome |-> "notfound"]
    ELSE LET folder == CHOOSE f \in FoldersNamed(db, folder_name) : TRUE IN
         IF PhotoExists(db, folder.id, filename, gcs_path)
         THEN [db |-> db, outcome |-> "exists"]
         ELSE [db |-> [db EXCEPT
                         !.photos = @ \cup {[id |-> db.np,
                                             folder_id |-> folder.id,
                                             filename |-> filename,
                                             gcs_path |-> gcs_path]},
                         !.np = @ + 1],
               outcome |-> "added"]

(***************************************************************************)
(* The object store.                                                       *)
(***************************************************************************)
\* storage_client.list_blobs(bucket, prefix=prefix): the blob names with the
\* prefix, in the lexicographic order the service lists them in
ListBlobs(st, prefix) == Sorted({k \in st : StartsWith(k, prefix)})

Range(seq) == {seq[i] : i \in 1..Len(seq)}

(***************************************************************************)
(* reindex_gcs, revision A.                                                *)
(***************************************************************************)
\* what can go wrong during a run: the first listing, the listing of a
\* folder or the listing of the cleanup raises; add_photo_to_db raises for
\* a blob, before its insert or (after) once the row is committed
NoFaults == [initial |-> FALSE, folder |-> {}, orphan |-> FALSE,
             raise |-> {}, after |-> FALSE]

\* the stats dictionary; order and inserted are history fields: the folder
\* names in the order the loop took them and the keys whose row was inserted
NoStats ==
    [folders_processed |-> 0, folders_added |-> 0, photos_processed |-> 0,
     photos_added |-> 0, photos_skipped |-> 0, errors |-> <<>>,
     orphaned_photos_removed |-> 0, order |-> <<>>, inserted |-> {}]

\* first pass: the set of folder names, parts[1] of every listed name that
\* has at least two parts, starts with 'folders' and has a non-empty parts[1]
\* (Python indexes from 0, TLA+ from 1)
FoldersOfListing(st) ==
    LET named == {k \in Range(ListBlobs(st, FoldersPrefix)) :
                    LET parts == Split(k, "/") IN
                      /\ Len(parts) >= 2
                      /\ parts[1] = <<"f", "o", "l", "d", "e", "r", "s">>
                      /\ parts[2] # <<>>}
    IN {Split(k, "/")[2] : k \in named}

\* a variant of the skip test without the folder-marker half
SkipBlobNoMarker(name) == StartsWith(name, <<".">>)

\* the test that skips a folder marker or a hidden file
SkipBlob(name) == EndsWith(name, <<"/">>) \/ StartsWith(name, <<".">>)

\* an entry of stats['errors']: what failed and for which blob or folder
ErrorMsg(what, name) == [what |-> what, name |-> name]

\* the body of the loop over the blobs of one folder; acc = [db, stats, env]
ProcessBlob(acc, folder_name, name) ==
    IF SkipBlob(name) THEN acc
    ELSE LET parts == Split(name, "/")
             filename == parts[Len(parts)]
             r == AddPhotoToDbA(acc.db, folder_name, filename, name)
             st1 == [acc.stats EXCEPT !.photos_processed = @ + 1]
             failed == [st1 EXCEPT !.errors = Append(@, ErrorMsg("photo", name))]
         IN CASE name \in acc.env.raise /\ ~acc.env.after ->
                   [acc EXCEPT !.stats = failed]
              [] name \in acc.env.raise /\ acc.env.after ->
                   [acc EXCEPT
                      !.db = r.db,
                      !.stats = IF r.outcome = "added"
                                THEN [failed EXCEPT !.inserted = @ \cup {name}]
                                ELSE failed]
              [] OTHER ->
                   [acc EXCEPT
                      !.db = r.db,
                      !.stats =
                        CASE r.outcome = "exists" ->
                               [st1 EXCEPT !.photos_skipped = @ + 1]
                          [] r.outcome = "added" ->
                               [st1 EXCEPT !.photos_added = @ + 1,
                                           !.inserted = @ \cup {name}]
                          [] OTHER -> failed]

\* a variant of the loop that gives the folder up at the first blob that
\* fails
RECURSIVE ProcessBlobsStopOnError(_, _, _)
ProcessBlobsStopOnError(acc, folder_name, blobs) ==
    IF blobs = <<>> THEN acc
    ELSE LET next == ProcessBlob(acc, folder_name, Head(blobs))
         IN IF Len(next.stats.errors) > Len(acc.stats.errors) THEN next
            ELSE ProcessBlobsStopOnError(next, folder_name, Tail(blobs))

RECURSIVE ProcessBlobs(_, _, _)
ProcessBlobs(acc, folder_name, blobs) ==
    IF blobs = <<>> THEN acc
    ELSE ProcessBlobs(ProcessBlob(acc, folder_name, Head(blobs)),
                      folder_name, Tail(blobs))

\* the body of the loop over sorted(folders)
ProcessFolder(acc, st, folder_name) ==
    LET r == AddFolderToDbA(acc.db, folder_name)
        st1 == [acc.stats EXCEPT
                  !.order = Append(@, folder_name),
                  !.folders_added = IF r.existed THEN @ ELSE @ + 1,
                  !.folders_processed = @ + 1]
        folder_prefix == FoldersPrefix \o folder_name \o <<"/">>
    IN IF folder_name \in acc.env.folder
       THEN [acc EXCEPT
               !.db = r.db,
               !.stats = [st1 EXCEPT
                            !.errors = Append(@, ErrorMsg("folder", folder_name))]]
       ELSE ProcessBlobs([acc EXCEPT !.db = r.db, !.stats = st1], folder_name,
                         ListBlobs(st, folder_prefix))

RECURSIVE ProcessFolders(_, _, _)
ProcessFolders(acc, st, names) ==
    IF names = <<>> THEN acc
    ELSE ProcessFolders(ProcessFolder(acc, st, Head(names)), st, Tail(names))

\* the photos the cleanup deletes: every row whose gcs_path is one of the
\* paths that rows of the processed folders hold and the listing lacks
OrphanedPaths(db, st, names) ==
    LET ids == {f.id : f \in {g \in db.folders : g.name \in names}}
        db_photos == {p \in db.photos : p.folder_id \in ids}
        db_photo_paths == {p.gcs_path : p \in {q \in db_photos : Truthy(q.gcs_path)}}
        storage_paths == {k \in Range(ListBlobs(st, FoldersPrefix)) :
                            ~EndsWith(k, <<"/">>)}
    IN db_photo_paths \ storage_paths

CleanupOrphans(acc, st, names) ==
    LET orphaned == OrphanedPaths(acc.db, st, names)
        gone == {p \in acc.db.photos : p.gcs_path \in orphaned}
    IN CASE acc.env.orphan ->
              [acc EXCEPT !.stats.errors = Append(@, ErrorMsg("cleanup", <<>>))]
         [] orphaned = {} -> acc
         [] OTHER ->
              [acc EXCEPT !.db.photos = @ \ gone,
                          !.stats.orphaned_photos_removed = Cardinality(gone)]

\* the whole handler on a database and a bucket, with what goes wrong during
\* the run: [db, stats, status, code].  A failure of the first listing is
\* caught by the outer handler; the failures inside the loops and inside the
\* cleanup are caught where they happen and the summary is returned.
ReindexGcsEnv(db, st, env) ==
    IF env.initial
    THEN [db |-> db, stats |-> NoStats, status |-> "error", code |-> 500]
    ELSE LET names == FoldersOfListing(st)
             scanned == ProcessFolders([db |-> db, stats |-> NoStats, env |-> env],
                                       st, Sorted(names))
             done == CleanupOrphans(scanned, st, names)
         IN [db |-> done.db, stats |-> done.stats,
             status |-> "success", code |-> 200]

\* the whole handler when nothing goes wrong
ReindexGcs(db, st) == ReindexGcsEnv(db, st, NoFaults)

(***************************************************************************)
(* werkzeug.utils.secure_filename, as the upload and delete handlers of    *)
(* revision B call it.                                                     *)
(***************************************************************************)
\* filename.replace('/', ' ')
ReplaceSep(s) == [i \in 1..Len(s) |-> IF s[i] = "/" THEN " " ELSE s[i]]

\* '_'.join(words)
RECURSIVE JoinUnderscore(_)
JoinUnderscore(words) ==
    IF words = <<>> THEN <<>>
    ELSE IF Len(words) = 1 THEN words[1]
    ELSE words[1] \o <<"_">> \o JoinUnderscore(Tail(words))

\* s.strip('._')
RECURSIVE StripDots(_)
StripDots(s) ==
    IF s = <<>> THEN s
    ELSE IF Head(s) \in {".", "_"} THEN StripDots(Tail(s))
    ELSE IF s[Len(s)] \in {".", "_"} THEN StripDots(SubSeq(s, 1, Len(s) - 1))
    ELSE s

\* the path separator becomes a blank, the words between blanks are joined
\* with '_', the characters outside [A-Za-z0-9_.-] are dropped (after the
\* join none of the model's characters is), leading and trailing '.' and
\* '_' are stripped
SecureFilename(s) ==
    LET words == SelectSeq(Split(ReplaceSep(s), " "), LAMBDA w : w # <<>>)
    IN StripDots(JoinUnderscore(words))

(***************************************************************************)
(* Revision B: upload and delete under _db_lock.  Its Photo rows name the  *)
(* folder (column folder) and the file (column name); in the table the     *)
(* model keeps, folder is the folder_id of the Folder row of that name and *)
(* name is filename.                                                       *)
(***************************************************************************)
\* revision B, add_folder_to_db
AddFolderToDbB(db, name) ==
    IF FoldersNamed(db, name) # {} THEN db
    ELSE InsertFolderRow(db, name).db

\* revision B, add_photo_to_db: an unconditional insert
AddPhotoToDbB(db, folder, name, gcs_path) ==
    LET f == CHOOSE g \in FoldersNamed(db, folder) : TRUE
    IN [db EXCEPT !.photos = @ \cup {[id |-> db.np, folder_id |-> f.id,
                                      filename |-> name, gcs_path |-> gcs_path]},
                  !.np = @ + 1]

\* upload_to_gcs: the blob path of a file; uuid is uuid4().hex[:8]
BlobPath(folder, file) ==
    FoldersPrefix \o folder \o <<"/">> \o file.uuid \o <<"_">>
        \o SecureFilename(file.filename)

\* what can go wrong during an upload: for the files named in upload the
\* write to the bucket raises, for those in db add_photo_to_db raises
NoUploadFaults == [upload |-> {}, db |-> {}]

\* the body of the loop of upload_photos; acc = [db, st, uploaded, env]
UploadFile(acc, folder, file) ==
    LET blob_path == BlobPath(folder, file)
        name == SecureFilename(file.filename)
    IN CASE name \in acc.env.upload -> acc
         [] name \in acc.env.db -> [acc EXCEPT !.st = @ \cup {blob_path}]
         [] OTHER ->
              [acc EXCEPT !.db = AddPhotoToDbB(acc.db, folder, name, blob_path),
                          !.st = @ \cup {blob_path},
                          !.uploaded = Append(@, name)]

\* a variant of the loop that ends at the first file that fails
RECURSIVE UploadFilesStopOnError(_, _, _)
UploadFilesStopOnError(acc, folder, files) ==
    IF files = <<>> THEN acc
    ELSE LET next == UploadFile(acc, folder, Head(files))
         IN IF Len(next.uploaded) = Len(acc.uploaded) THEN next
            ELSE UploadFilesStopOnError(next, folder, Tail(files))

\* the loop of upload_photos over the files
RECURSIVE UploadFiles(_, _, _)
UploadFiles(acc, folder, files) ==
    IF files = <<>> THEN acc
    ELSE UploadFiles(UploadFile(acc, folder, Head(files)), folder, Tail(files))

\* the rows of a folder as revision B selects them: filter_by(folder=name)
PhotosOfFolder(db, name) ==
    {p \in db.photos : \E f \in FoldersNamed(db, name) : p.folder_id = f.id}

\* delete_folder_from_db, the database part: the photos of the folder and
\* the folder row are deleted
DeleteFolderRows(db, name) ==
    [db EXCEPT !.photos = @ \ PhotosOfFolder(db, name),
               !.folders = @ \ FoldersNamed(db, name)]

(***************************************************************************)
(* The state machine of the Flask application: one action per request, and *)
(* the writes a client makes into the bucket directly.                     *)
(***************************************************************************)
DB == [folders |-> folders, photos |-> photos, nf |-> nextFolderId, np |-> nextPhotoId]

SetDB(db) ==
    /\ folders' = db.folders
    /\ photos' = db.photos
    /\ nextFolderId' = db.nf
    /\ nextPhotoId' = db.np

\* the id sequences stay inside the bounds of the model
InBounds(db) == db.nf <= MaxFolderRows + 1 /\ db.np <= MaxPhotoRows + 1

NoCall == [op |-> "none"]

Workers == 1..NumWorkers
Idle == [kind |-> "idle"]

\* inputs of the requests
FolderInputs == {NameN, NameC}
UploadFolderInputs == {NameN, <<"/", "C">>}
UploadFileInputs == {FileA, <<"/", "b">>}
UuidPrefixes == {<<"0">>}
PostedGcsPaths == {NULL, Key(NameC, FileA)}
MaxBatch == 1

UploadBatches ==
    LET File == [filename : UploadFileInputs, uuid : UuidPrefixes]
    IN UNION {[1..n -> File] : n \in 1..MaxBatch}

\* annotate_all_batches has not been called
DriverIdle == [pc |-> "idle"]

\* the process has not started to connect to the database
NotStarted == [pc |-> "idle"]

\* GCSClient._instance = None: the class has not been instantiated
NoInstance == [instance |-> FALSE, available |-> FALSE]

Init ==
    /\ store = {}
    /\ folders = {}
    /\ photos = {}
    /\ nextFolderId = 1
    /\ nextPhotoId = 1
    /\ last = NoCall
    /\ reqs = [w \in Workers |-> Idle]
    /\ db_lock = 0
    /\ mFolders = {}
    /\ mPhotos = {}
    /\ mNextFolderId = 1
    /\ mNextPhotoId = 1
    /\ session = {}
    /\ sqlite_photos = <<>>
    /\ mUsers = {}
    /\ mNextUserId = 1
    /\ gcs_client = NoInstance
    /\ startup = NotStarted
    /\ driver = DriverIdle

\* a blob written into the bucket outside the application
PutBlob(k) ==
    /\ k \notin store
    /\ store' = store \cup {k}
    /\ last' = NoCall
    /\ UNCHANGED <<folders, photos, nextFolderId, nextPhotoId>>
    /\ UNCHANGED <<workerVars, ormVars, sqlite_photos, userVars, procVars>>

\* a blob removed from the bucket outside the application
DeleteBlob(k) ==
    /\ k \in store
    /\ store' = store \ {k}
    /\ last' = NoCall
    /\ UNCHANGED <<folders, photos, nextFolderId, nextPhotoId>>
    /\ UNCHANGED <<workerVars, ormVars, sqlite_photos, userVars, procVars>>

\* POST /api/folders, revision A: 409 when the name exists, else the insert
HandleFoldersPost(name) ==
    /\ LET db == IF FoldersNamed(DB, name) # {} THEN DB
                 ELSE InsertFolderRow(DB, name).db
       IN InBounds(db) /\ SetDB(db)
    /\ last' = NoCall
    /\ UNCHANGED <<store, workerVars, ormVars, sqlite_photos, userVars, procVars>>

\* POST /api/photos, revision A: 404 without the folder, 409 when the folder
\* holds the filename, else the insert
HandlePhotosPost(folder_id, filename, gcs_path) ==
    /\ LET db == IF \/ ~\E f \in folders : f.id = folder_id
                    \/ \E p \in photos : p.folder_id = folder_id /\ p.filename = filename
                 THEN DB
                 ELSE [DB EXCEPT !.photos = @ \cup {[id |-> DB.np,
                                                     folder_id |-> folder_id,
                                                     filename |-> filename,
                                                     gcs_path |-> gcs_path]},
                                 !.np = @ + 1]
       IN InBounds(db) /\ SetDB(db)
    /\ last' = NoCall
    /\ UNCHANGED <<store, workerVars, ormVars, sqlite_photos, userVars, procVars>>

\* POST /api/upload, revision B.  uuid4 is taken to give a blob path that
\* neither the bucket nor a row holds yet.
UploadPhotos(folder_in, files) ==
    LET folder == SecureFilename(folder_in)
        paths == {BlobPath(folder, files[i]) : i \in 1..Len(files)}
        res == UploadFiles([db |-> AddFolderToDbB(DB, folder), st |-> store,
                            uploaded |-> <<>>, env |-> NoUploadFaults],
                           folder, files)
    IN /\ folder # <<>>
       /\ Cardinality(paths) = Len(files)
       /\ \A k \in paths : k \notin store /\ \A p \in photos : p.gcs_path # k
       /\ InBounds(res.db)
       /\ SetDB(res.db)
       /\ store' = res.st
       /\ last' = NoCall
       /\ UNCHANGED <<workerVars, ormVars, sqlite_photos, userVars, procVars>>

\* DELETE /api/folder/<folder>, revision B.  The rows go first; then every
\* blob is deleted, and the first blob.delete() that fails (no such blob, a
\* null path) ends the request with the blobs before it deleted.
DeleteFolder(folder_in) ==
    LET folder == SecureFilename(folder_in)
        rows == PhotosOfFolder(DB, folder)
        present == {p.gcs_path : p \in rows} \cap store
        clean == /\ \A p \in rows : p.gcs_path \in store
                 /\ Cardinality(present) = Cardinality(rows)
    IN /\ SetDB(DeleteFolderRows(DB, folder))
       /\ \E gone \in SUBSET present :
            /\ clean => gone = present
            /\ ~clean => gone # present \/ present = {}
            /\ store' = store \ gone
       /\ last' = [op |-> "delete_folder", name |-> folder,
                   pre_folders |-> FoldersNamed(DB, folder), pre_photos |-> rows,
                   status |-> IF clean THEN 200 ELSE 500,
                   changed |-> (store' # store \/ DeleteFolderRows(DB, folder) # DB)]
       /\ UNCHANGED <<workerVars, ormVars, sqlite_photos, userVars, procVars>>

\* POST /api/reindex-gcs, revision A, with what goes wrong during the run
ReindexFaulty(env) ==
    LET res == ReindexGcsEnv(DB, store, env)
    IN /\ InBounds(res.db)
       /\ SetDB(res.db)
       /\ last' = [op |-> "reindex", pre_folders |-> folders, pre_photos |-> photos,
                   stats |-> res.stats, second |-> (last.op = "reindex"),
                   env |-> env, status |-> res.status, code |-> res.code]
       /\ UNCHANGED <<store, workerVars, ormVars, sqlite_photos, userVars, procVars>>

\* POST /api/reindex-gcs, revision A, when nothing goes wrong
Reindex == ReindexFaulty(NoFaults)

Next ==
    \/ \E k \in DirectKeys : PutBlob(k)
    \/ \E k \in store : DeleteBlob(k)
    \/ \E name \in FolderInputs : HandleFoldersPost(name)
    \/ \E f \in folders, gcs_path \in PostedGcsPaths :
         HandlePhotosPost(f.id, FileA, gcs_path)
    \/ \E folder_in \in UploadFolderInputs, files \in UploadBatches :
         UploadPhotos(folder_in, files)
    \/ Reindex

\* the requests of the Flask application, served one after the other
Spec == Init /\ [][Next]_vars

\* the upload and delete handlers of revision B, with the rows and blobs a
\* client can put in their way
NextDelete ==
    \/ \E k \in store : DeleteBlob(k)
    \/ \E name \in FolderInputs : HandleFoldersPost(name)
    \/ \E f \in folders : HandlePhotosPost(f.id, FileA, NULL)
    \/ \E folder_in \in UploadFolderInputs, files \in UploadBatches :
         UploadPhotos(folder_in, files)
    \/ \E folder_in \in FolderInputs : DeleteFolder(folder_in)

SpecDelete == Init /\ [][NextDelete]_vars

(***************************************************************************)
(* Reconciliation: what a run of reindex_gcs leaves behind.  Right after a *)
(* run, last holds the tables as they were before it and its statistics,   *)
(* store is the listing it read, and folders and photos are its result.    *)
(***************************************************************************)
Reindexed == last.op = "reindex"

\* the rows the run inserted
NewPhotos == photos \ last.pre_photos

\* a key of the form folders/{folder}/{filename}
IsFileKey(k) ==
    LET parts == Split(k, "/")
    IN /\ Len(parts) = 3
       /\ parts[1] = <<"f", "o", "l", "d", "e", "r", "s">>
       /\ parts[2] # <<>>
       /\ parts[3] # <<>>

\* C1: a second run of reindex_gcs with nothing changed in between reports
\* photos_added = 0 and leaves the Folder and Photo row counts as the first
\* run left them.
C1_SecondRunAddsNothing ==
    (Reindexed /\ last.second) =>
        /\ last.stats.photos_added = 0
        /\ Cardinality(photos) = Cardinality(last.pre_photos)
        /\ Cardinality(folders) = Cardinality(last.pre_folders)

\* C2: after reindex_gcs every listed key folders/{folder}/{filename} has a
\* Photo row whose gcs_path is the key, whatever the tables held before.
C2_EveryFileKeyHasItsRow ==
    Reindexed =>
        \A k \in store : IsFileKey(k) => \E p \in photos : p.gcs_path = k

\* a key with fewer than two path segments after 'folders/'
FewerThanTwoSegments(k) ==
    /\ StartsWith(k, FoldersPrefix)
    /\ Len(Split(SubSeq(k, Len(FoldersPrefix) + 1, Len(k)), "/")) < 2

\* a key whose filename segment starts with '.'
IsHiddenKey(k) ==
    LET parts == Split(k, "/") IN StartsWith(parts[Len(parts)], <<".">>)

\* the folder segment of a key
FolderOfKey(k) == Split(k, "/")[2]

\* C6: from an empty database and a listing of n file keys
\* folders/{folder}/{filename} over k folders, reindex_gcs leaves k Folder
\* rows and n Photo rows, each Photo with the folder_id of its folder and
\* its key as gcs_path, and reports photos_added = n and no error.
C6_EmptyDatabaseIsFilled ==
    (/\ Reindexed
     /\ last.pre_folders = {} /\ last.pre_photos = {}
     /\ \A k \in store : IsFileKey(k)) =>
        /\ Cardinality(folders) = Cardinality({FolderOfKey(k) : k \in store})
        /\ Cardinality(photos) = Cardinality(store)
        /\ \A k \in store : \E p \in photos, f \in folders :
              /\ p.gcs_path = k
              /\ f.name = FolderOfKey(k)
              /\ p.folder_id = f.id
        /\ last.stats.photos_added = Cardinality(store)
        /\ last.stats.errors = <<>>

\* two files in two folders were indexed into an empty database
C6_Witness ==
    /\ Reindexed
    /\ last.pre_folders = {} /\ last.pre_photos = {}
    /\ \A k \in store : IsFileKey(k)
    /\ Cardinality(folders) = 2
    /\ Cardinality(photos) = 2

\* C7: reindex_gcs creates no Photo row and records no error for a listed
\* key with fewer than two path segments after 'folders/' or ending in '/'.
C7_NoRowForShortOrMarkerKey ==
    Reindexed =>
        \A k \in store : (FewerThanTwoSegments(k) \/ EndsWith(k, <<"/">>)) =>
            /\ k \notin last.stats.inserted
            /\ \A p \in NewPhotos : p.gcs_path # k
            /\ \A i \in 1..Len(last.stats.errors) : last.stats.errors[i].name # k

\* a run over a listing with a one-segment key and a folder marker that
\* also added a photo
C7_Witness ==
    /\ Reindexed
    /\ FoldersPrefix \o NameC \in store
    /\ Key(NameN, <<>>) \in store
    /\ last.stats.photos_added >= 1

\* C8: a listed key whose filename segment starts with '.' gets no Photo
\* row from reindex_gcs.
C8_NoRowForHiddenKey ==
    Reindexed =>
        \A k \in store : IsHiddenKey(k) => \A p \in NewPhotos : p.gcs_path # k

\* C9: reindex_gcs inserts a Photo row for a key only if no row before the
\* call had the same (folder_id, filename) and none had the key as gcs_path.
C9_InsertOnlyIfAbsent ==
    Reindexed =>
        \A n \in NewPhotos : \A q \in last.pre_photos :
            /\ ~(q.folder_id = n.folder_id /\ q.filename = n.filename)
            /\ q.gcs_path # n.gcs_path

\* C10: reindex_gcs changes no field of a row that existed before the call.
\* Every Folder row is kept as it was; a Photo row is kept as it was or
\* deleted as an orphan (its gcs_path set and not listed); the rows inserted
\* have new ids.
C10_ExistingRowsUntouched ==
    Reindexed =>
        /\ last.pre_folders \subseteq folders
        /\ \A f \in folders \ last.pre_folders :
              \A g \in last.pre_folders : g.id # f.id
        /\ \A p \in last.pre_photos :
              \/ p \in photos
              \/ /\ \A q \in photos : q.id # p.id
                 /\ Truthy(p.gcs_path)
                 /\ p.gcs_path \notin store
        /\ \A n \in NewPhotos : \A p \in last.pre_photos : n.id # p.id

\* a run that found a row of its folder in place, kept it, and added another
C10_Witness ==
    /\ Reindexed
    /\ last.stats.photos_skipped >= 1
    /\ last.stats.photos_added >= 1
    /\ last.pre_photos \cap photos # {}

(***************************************************************************)
(* Deleting a folder through revision B.                                   *)
(***************************************************************************)
\* C4: DELETE /api/folder/{name} removes the Folder row and deletes none of
\* the Photo rows of the folder.
C4_FolderDeleteKeepsPhotos ==
    last.op = "delete_folder" =>
        /\ \A f \in last.pre_folders : f \notin folders
        /\ \A p \in last.pre_photos : \E q \in photos : q.id = p.id

(***************************************************************************)
(* Folder upserts of requests served at the same time.  A request looks    *)
(* the name up and inserts the row in a later step; another request can    *)
(* run between the two.  POST /api/folders and reindex_gcs (through        *)
(* revision A's add_folder_to_db) take no lock; upload_photos (through     *)
(* revision B's add_folder_to_db) holds _db_lock from the look-up to the   *)
(* commit.  A request is [kind, pc, name, todo]: todo are the folder names *)
(* reindex_gcs has still to upsert after name.                             *)
(***************************************************************************)
Busy(w) == reqs[w].kind # "idle"

\* POST /api/folders with a name
StartPost(w, name) ==
    /\ ~Busy(w)
    /\ reqs' = [reqs EXCEPT ![w] = [kind |-> "post", pc |-> "check",
                                    name |-> name, todo |-> <<>>]]
    /\ UNCHANGED <<flaskVars, last, db_lock, ormVars, sqlite_photos, userVars, procVars>>

\* POST /api/reindex-gcs over a listing whose folder names are names: the
\* loop over sorted(folders)
StartReindex(w, names) ==
    /\ ~Busy(w)
    /\ LET order == Sorted(names)
       IN reqs' = [reqs EXCEPT ![w] = [kind |-> "reindex", pc |-> "check",
                                       name |-> Head(order), todo |-> Tail(order)]]
    /\ UNCHANGED <<flaskVars, last, db_lock, ormVars, sqlite_photos, userVars, procVars>>

\* POST /api/upload into a folder
StartUpload(w, folder_in) ==
    /\ ~Busy(w)
    /\ SecureFilename(folder_in) # <<>>
    /\ reqs' = [reqs EXCEPT ![w] = [kind |-> "upload", pc |-> "check",
                                    name |-> SecureFilename(folder_in),
                                    todo |-> <<>>]]
    /\ UNCHANGED <<flaskVars, last, db_lock, ormVars, sqlite_photos, userVars, procVars>>

\* what a request does once the upsert of its name is over: reindex_gcs
\* goes on to its next folder, the others are done with the folders table
AfterUpsert(r) ==
    IF r.kind = "reindex" /\ r.todo # <<>>
    THEN [r EXCEPT !.pc = "check", !.name = Head(r.todo), !.todo = Tail(r.todo)]
    ELSE Idle

\* the look-up: db.query(Folder).filter(name).first().  upload_photos takes
\* _db_lock first and keeps it if it goes on to insert.
CheckFolder(w) ==
    /\ Busy(w)
    /\ reqs[w].pc = "check"
    /\ reqs[w].kind = "upload" => db_lock = 0
    /\ IF FoldersNamed(DB, reqs[w].name) # {}
       THEN /\ reqs' = [reqs EXCEPT ![w] = AfterUpsert(reqs[w])]
            /\ UNCHANGED db_lock
       ELSE /\ reqs' = [reqs EXCEPT ![w].pc = "commit"]
            /\ db_lock' = IF reqs[w].kind = "upload" THEN w ELSE db_lock
    /\ UNCHANGED <<flaskVars, last, ormVars, sqlite_photos, userVars, procVars>>

\* db.add(Folder(name)); db.commit(): the row, or the refusal of a second
\* row of the name, which every handler answers without a further write
CommitFolder(w) ==
    /\ Busy(w)
    /\ reqs[w].pc = "commit"
    /\ LET r == InsertFolderRow(DB, reqs[w].name)
       IN InBounds(r.db) /\ SetDB(r.db)
    /\ reqs' = [reqs EXCEPT ![w] = AfterUpsert(reqs[w])]
    /\ db_lock' = IF db_lock = w THEN 0 ELSE db_lock
    /\ UNCHANGED <<store, last, ormVars, sqlite_photos, userVars, procVars>>

NextFolders ==
    \/ \E w \in Workers, name \in FolderInputs : StartPost(w, name)
    \/ \E w \in Workers, names \in SUBSET FolderInputs \ {{}} : StartReindex(w, names)
    \/ \E w \in Workers, folder_in \in UploadFolderInputs : StartUpload(w, folder_in)
    \/ \E w \in Workers : CheckFolder(w)
    \/ \E w \in Workers : CommitFolder(w)

SpecFolders == Init /\ [][NextFolders]_vars

\* C5: in every reachable state at most one Folder row exists per folder
\* name, whatever the interleaving of the requests that insert folders.
C5_OneRowPerFolderName ==
    \A f \in folders, g \in folders : f.name = g.name => f = g

\* a request that found its name absent is about to insert it, and another
\* request has inserted the name in the meantime
C5_Witness ==
    \E w \in Workers :
        /\ Busy(w)
        /\ reqs[w].pc = "commit"
        /\ FoldersNamed(DB, reqs[w].name) # {}

(***************************************************************************)
(* The ORM models of the FastAPI application (app/models) on one Session.  *)
(* Folder.photos is a relationship with cascade "save-update, merge,       *)
(* expunge, delete, delete-orphan" and passive_deletes=True: deleting a    *)
(* Folder through the Session deletes the Photo objects of its photos      *)
(* collection that the Session has loaded, and leaves the rows it has not  *)
(* loaded to the foreign key (ON DELETE SET NULL).  A commit expires what  *)
(* the Session has loaded.                                                 *)
(***************************************************************************)
\* folder_id of a photo in no folder (SQL NULL)
NullId == 0

\* Folder.create
OrmFolderCreate(name) ==
    /\ mNextFolderId <= MaxOrmFolders
    /\ mFolders' = mFolders \cup {[id |-> mNextFolderId, name |-> name]}
    /\ mNextFolderId' = mNextFolderId + 1
    /\ session' = {}
    /\ last' = NoCall
    /\ UNCHANGED <<mPhotos, mNextPhotoId, flaskVars, workerVars, sqlite_photos, userVars, procVars>>

\* Photo.create, in a folder or in none, with or without a gcs_path
OrmPhotoCreate(folder_id, gcs_path) ==
    /\ mNextPhotoId <= MaxOrmPhotos
    /\ mPhotos' = mPhotos \cup {[id |-> mNextPhotoId, folder_id |-> folder_id,
                                 gcs_path |-> gcs_path]}
    /\ mNextPhotoId' = mNextPhotoId + 1
    /\ session' = {}
    /\ last' = NoCall
    /\ UNCHANGED <<mFolders, mNextFolderId, flaskVars, workerVars, sqlite_photos, userVars, procVars>>

\* folder.photos is read: the Session loads the collection
OrmLoadPhotos(folder_id) ==
    /\ \A c \in session : c.folder # folder_id
    /\ session' = session \cup
         {[folder |-> folder_id,
           photos |-> {p.id : p \in {q \in mPhotos : q.folder_id = folder_id}}]}
    /\ last' = NoCall
    /\ UNCHANGED <<mFolders, mPhotos, mNextFolderId, mNextPhotoId,
                   flaskVars, workerVars, sqlite_photos, userVars, procVars>>

\* db.expire_all(), or the Session is closed and a new one opened
OrmExpireAll ==
    /\ session # {}
    /\ session' = {}
    /\ last' = NoCall
    /\ UNCHANGED <<mFolders, mPhotos, mNextFolderId, mNextPhotoId,
                   flaskVars, workerVars, sqlite_photos, userVars, procVars>>

\* the photos that db.delete(folder) deletes with the folder: the loaded
\* members of folder.photos
CascadedPhotos(sess, id) == UNION {c.photos : c \in {d \in sess : d.folder = id}}

\* Folder.delete(db, id=id) on the tables: [folders, photos]
FolderDelete(fs, ps, sess, id) ==
    IF ~\E f \in fs : f.id = id THEN [folders |-> fs, photos |-> ps]
    ELSE LET nulled == {IF p.folder_id = id THEN [p EXCEPT !.folder_id = NullId]
                        ELSE p : p \in ps}
         IN [folders |-> {f \in fs : f.id # id},
             photos |-> {p \in nulled : p.id \notin CascadedPhotos(sess, id)}]

OrmFolderDelete(id) ==
    /\ LET r == FolderDelete(mFolders, mPhotos, session, id)
       IN /\ mFolders' = r.folders
          /\ mPhotos' = r.photos
    /\ session' = {}
    /\ last' = [op |-> "folder_delete", id |-> id,
                existed |-> (\E f \in mFolders : f.id = id),
                pre_photos |-> {p.id : p \in {q \in mPhotos : q.folder_id = id}}]
    /\ UNCHANGED <<mNextFolderId, mNextPhotoId, flaskVars, workerVars, sqlite_photos, userVars, procVars>>

(***************************************************************************)
(* POST /api/reindex-gcs of the FastAPI application (app/main.py).         *)
(***************************************************************************)
PhotosPrefix == <<"p", "h", "o", "t", "o", "s", "/">>

\* blob names under photos/: two images and a file that is none
PhotoJpg == PhotosPrefix \o <<"a", ".", "j", "p", "g">>
PhotoUpperJpg == PhotosPrefix \o <<"b", ".", "J", "P", "G">>
PhotoKeys == {PhotoJpg, PhotoUpperJpg, PhotosPrefix \o <<"d">>}

\* str.lower() on the characters the model uses
Lower(s) ==
    [i \in 1..Len(s) |->
       CASE s[i] = "J" -> "j" [] s[i] = "P" -> "p" [] s[i] = "G" -> "g"
         [] s[i] = "C" -> "c" [] s[i] = "N" -> "n" [] OTHER -> s[i]]

\* os.path.splitext(path)[1]: the part of the last component from its last
\* dot on, empty when there is no dot after the leading dots
SplitExt(path) ==
    LET slashes == {i \in 1..Len(path) : path[i] = "/"}
        start == IF slashes = {} THEN 1
                 ELSE 1 + CHOOSE i \in slashes : \A j \in slashes : j <= i
        dots == {i \in start..Len(path) : path[i] = "."}
        dot == CHOOSE i \in dots : \A j \in dots : j <= i
    IN IF dots = {} \/ \A i \in start..dot : path[i] = "." THEN <<>>
       ELSE SubSeq(path, dot, Len(path))

image_extensions ==
    {<<".", "j", "p", "g">>, <<".", "j", "p", "e", "g">>, <<".", "p", "n", "g">>,
     <<".", "g", "i", "f">>, <<".", "w", "e", "b", "p">>,
     <<".", "t", "i", "f", "f">>, <<".", "b", "m", "p">>}

\* GCSClient.list_files(prefix): the names, or [] when the listing raises
ListFiles(st, prefix, fails) == IF fails THEN <<>> ELSE ListBlobs(st, prefix)

\* the handler.  available is gcs_client.available; list_fails says that
\* bucket.list_blobs raises.  A Photo built here has no owner_id, which the
\* table requires, so a commit that holds new photos is refused and the
\* handler answers 500 with nothing inserted.
ApiReindexGcs(available, list_fails) ==
    LET existing_paths == {p.gcs_path : p \in {q \in mPhotos : q.gcs_path # NULL}}
        all_files == ListFiles(store, PhotosPrefix, list_fails)
        valid_images == {f \in Range(all_files) : Lower(SplitExt(f)) \in image_extensions}
        new_files == valid_images \ existing_paths
        code == CASE ~available -> 503
                  [] new_files # {} -> 500
                  [] OTHER -> 200
    IN /\ last' = [op |-> "api_reindex", available |-> available,
                   list_fails |-> available /\ list_fails, code |-> code,
                   pre_photos |-> mPhotos, total_files_found |-> Len(all_files)]
       /\ UNCHANGED <<ormVars, flaskVars, workerVars, sqlite_photos, userVars, procVars>>

NextModels ==
    \/ \E name \in FolderInputs : OrmFolderCreate(name)
    \/ \E folder_id \in {NullId} \cup {f.id : f \in mFolders} :
         OrmPhotoCreate(folder_id, NULL)
    \/ \E f \in mFolders : OrmLoadPhotos(f.id)
    \/ OrmExpireAll
    \/ \E id \in 1..MaxOrmFolders : OrmFolderDelete(id)

SpecModels == Init /\ [][NextModels]_vars

\* C3: after Folder.delete(db, id) the Folder row is gone, every Photo that
\* was in the folder still exists, and each of them has folder_id null.
C3_FolderDeleteKeepsPhotos ==
    (last.op = "folder_delete" /\ last.existed) =>
        /\ \A f \in mFolders : f.id # last.id
        /\ \A pid \in last.pre_photos :
              \E p \in mPhotos : p.id = pid /\ p.folder_id = NullId

(***************************************************************************)
(* reindex_gcs when a listing or the insert of a blob fails.               *)
(***************************************************************************)
\* what can go wrong in one run over the bucket st: one of the listings
\* fails, or add_photo_to_db fails for some of the blobs
ReindexFaults(st) ==
    {[NoFaults EXCEPT !.initial = TRUE], [NoFaults EXCEPT !.orphan = TRUE]}
    \cup {[NoFaults EXCEPT !.folder = {f}] : f \in FoldersOfListing(st)}
    \cup {[NoFaults EXCEPT !.raise = ks, !.after = b] :
            ks \in {x \in SUBSET st : Cardinality(x) \in 1..MaxFailing},
            b \in BOOLEAN}

\* the blobs of the bucket in the runs with failures: one in folder C, two
\* in folder N
FaultKeys == {Key(NameC, FileA), Key(NameN, FileHidden), Key(NameN, FileA)}

NextFaults ==
    \/ \E k \in FaultKeys : PutBlob(k)
    \/ \E f \in folders : HandlePhotosPost(f.id, FileA, NULL)
    \/ \E env \in ReindexFaults(store) : ReindexFaulty(env)

SpecFaults == Init /\ [][NextFaults]_vars

\* the blobs a run passes to add_photo_to_db: the blobs of the folders whose
\* listing worked that the skip test lets through
ProcessedKeys ==
    {k \in store :
       /\ ~SkipBlob(k)
       /\ \E f \in FoldersOfListing(store) \ last.env.folder :
             StartsWith(k, FoldersPrefix \o f \o <<"/">>)}

\* the blobs of a run for which stats.errors holds an entry
ErrorKeys ==
    {last.stats.errors[i].name :
       i \in {j \in 1..Len(last.stats.errors) : last.stats.errors[j].what = "photo"}}

\* C11: in reindex_gcs a failure on one blob is recorded in stats.errors and
\* the scan goes on: every blob of the listing is processed, the failing
\* ones are in errors, every other one was inserted or found in place, and
\* the rows inserted during the run are in the table at its end.
C11_BlobFailureDoesNotStopTheScan ==
    (last.op = "reindex" /\ last.status = "success") =>
        /\ last.stats.photos_processed = Cardinality(ProcessedKeys)
        /\ ProcessedKeys \cap last.env.raise \subseteq ErrorKeys
        /\ \A k \in ProcessedKeys \ last.env.raise :
              \/ k \in last.stats.inserted
              \/ \E p \in last.pre_photos, f \in folders :
                    /\ f.name = FolderOfKey(k)
                    /\ p.folder_id = f.id
                    /\ p.filename = Split(k, "/")[Len(Split(k, "/"))]
        /\ \A k \in last.stats.inserted : k \in store =>
              \E p \in photos \ last.pre_photos : p.gcs_path = k

\* a run in which the insert failed for the first blob of folder N, after
\* the blob of folder C was inserted and before the next blob of N was
C11_Witness ==
    /\ last.op = "reindex"
    /\ last.env.raise = {Key(NameN, FileHidden)}
    /\ ~last.env.after
    /\ last.stats.inserted = {Key(NameC, FileA), Key(NameN, FileA)}
    /\ Key(NameN, FileHidden) \in ErrorKeys

\* C12: if a listing call of reindex_gcs fails (the first one, the one of a
\* folder, the one of the cleanup) the call ends with status 'error' and
\* HTTP 500.
C12_ListingFailureIsAnError ==
    (/\ last.op = "reindex"
     /\ \/ last.env.initial
        \/ last.env.orphan
        \/ last.env.folder # {}) =>
        last.status = "error" /\ last.code = 500

\* the FastAPI reindexing over a bucket and a photos table filled by hand
NextApi ==
    \/ \E k \in PhotoKeys : PutBlob(k)
    \/ \E gcs_path \in {NULL, PhotoJpg} : OrmPhotoCreate(NullId, gcs_path)
    \/ \E available \in BOOLEAN, list_fails \in BOOLEAN :
         ApiReindexGcs(available, list_fails)

SpecApi == Init /\ [][NextApi]_vars

(***************************************************************************)
(* upload_photos when the write of a file to the bucket or the insert of   *)
(* its row fails.                                                          *)
(***************************************************************************)
\* files of one request
MaxFaultBatch == 2

FaultFileInputs == {FileA, <<"/", "b">>, <<"b", ".", "d">>}

\* the batches: files of different names, each with its uuid prefix
FaultBatches ==
    LET File == [filename : FaultFileInputs, uuid : UuidPrefixes]
    IN {fs \in UNION {[1..n -> File] : n \in 1..MaxFaultBatch} :
          \A i, j \in 1..Len(fs) : i # j => fs[i].filename # fs[j].filename}

\* what can go wrong in a request with these files
UploadFaults(files) ==
    LET names == {SecureFilename(files[i].filename) : i \in 1..Len(files)}
    IN {env \in [upload : SUBSET names, db : SUBSET names] :
          /\ env.upload \cap env.db = {}
          /\ Cardinality(env.upload \cup env.db) <= MaxFailing}

\* POST /api/upload, revision B, with what goes wrong: the response is 201
\* with the keys folder, uploaded and folders, uploaded holding the files
\* that went through
UploadPhotosFaulty(folder_in, files, env) ==
    LET folder == SecureFilename(folder_in)
        paths == {BlobPath(folder, files[i]) : i \in 1..Len(files)}
        res == UploadFiles([db |-> AddFolderToDbB(DB, folder), st |-> store,
                            uploaded |-> <<>>, env |-> env], folder, files)
    IN /\ folder # <<>>
       /\ Cardinality(paths) = Len(files)
       /\ \A k \in paths : k \notin store /\ \A p \in photos : p.gcs_path # k
       /\ InBounds(res.db)
       /\ SetDB(res.db)
       /\ store' = res.st
       /\ last' = [op |-> "upload", folder |-> folder, files |-> files, env |-> env,
                   pre_photos |-> photos, code |-> 201,
                   body |-> {"folder", "uploaded", "folders"},
                   uploaded |-> res.uploaded]
       /\ UNCHANGED <<workerVars, ormVars, sqlite_photos, userVars, procVars>>

NextUpload ==
    \/ \E files \in FaultBatches :
         \E env \in UploadFaults(files) :
            UploadPhotosFaulty(<<"/", "C">>, files, env)

SpecUpload == Init /\ [][NextUpload]_vars

\* the files of the last upload request, by the name their row gets
UploadNames ==
    {SecureFilename(last.files[i].filename) : i \in 1..Len(last.files)}

\* the row an upload request made for the file of this name
UploadedRow(name) ==
    {p \in photos \ last.pre_photos :
       /\ p.filename = name
       /\ \E f \in FoldersNamed(DB, last.folder) : p.folder_id = f.id
       /\ p.gcs_path \in store}

\* C15: when a file of a batch fails to upload, every other file of the
\* batch, before and after it, is uploaded and gets its Photo row.
C15_OtherFilesStillUploaded ==
    (last.op = "upload" /\ last.env.upload # {}) =>
        \A name \in UploadNames \ (last.env.upload \cup last.env.db) :
            UploadedRow(name) # {}

\* a batch whose first file failed to upload and whose last file got its
\* row
C15_Witness ==
    /\ last.op = "upload"
    /\ Len(last.files) = MaxFaultBatch
    /\ last.env.upload = {SecureFilename(last.files[1].filename)}
    /\ last.env.db = {}
    /\ UploadedRow(SecureFilename(last.files[Len(last.files)].filename)) # {}

C17_MissingFolderIsNotFound ==
    (last.op = "delete_folder" /\ last.pre_folders = {}) =>
        last.status = 404 /\ ~last.changed

\* C18: reindex_gcs upserts and scans the folders in lexicographic order:
\* the sequence of folder names of a run holds each folder name of the
\* listing once, each smaller than the next.
C18_FoldersInSortedOrder ==
    (Reindexed /\ last.status = "success") =>
        LET order == last.stats.order
        IN /\ Range(order) = FoldersOfListing(store)
           /\ Len(order) = Cardinality(FoldersOfListing(store))
           /\ \A i \in 1..Len(order) - 1 : StrLess(order[i], order[i + 1])

\* a run over a listing in which folder N was written before folder C
C18_Witness ==
    /\ Reindexed
    /\ last.stats.order = <<NameC, NameN>>
    /\ last.stats.folders_added = 2

(***************************************************************************)
(* annotate_locations (revision B).  It reads and writes the table photos  *)
(* of the SQLite file DB_PATH through sqlite3, under _db_lock.  No other   *)
(* handler writes that file; its rows are there from outside.              *)
(***************************************************************************)
MaxSqlitePhotos == 2    \* rows of the SQLite table

\* the string "null"
NullText == <<"n", "u", "l", "l">>

\* a tag the geocoder or the landmark detection gives
FoundTag == <<"X">>

\* a row put into the SQLite table from outside
SqliteInsert(tag) ==
    /\ Len(sqlite_photos) < MaxSqlitePhotos
    /\ sqlite_photos' = Append(sqlite_photos, [url |-> <<"u">>, location_tag |-> tag])
    /\ last' = NoCall
    /\ UNCHANGED <<flaskVars, workerVars, ormVars, userVars, procVars>>

\* WHERE location_tag IS NULL OR location_tag = "" OR location_tag = "null"
SelectedAsUntagged(row) ==
    row.location_tag = NULL \/ row.location_tag = <<>> \/ row.location_tag = NullText

\* WHERE location_tag IS NULL OR location_tag = ""
CountedAsRemaining(row) == row.location_tag = NULL \/ row.location_tag = <<>>

\* SELECT id, url FROM photos WHERE ..: the ids in rowid order
UntaggedIds(rows) ==
    LET Keep(i) == SelectedAsUntagged(rows[i])
    IN SelectSeq([i \in 1..Len(rows) |-> i], Keep)

\* SELECT COUNT(*) FROM photos WHERE location_tag IS NULL OR location_tag = ""
RemainingUntagged(rows) ==
    Cardinality({i \in 1..Len(rows) : CountedAsRemaining(rows[i])})

\* LIMIT batch_size OFFSET offset on a sequence of ids, as SQLite reads
\* them: a negative LIMIT is no limit, a negative OFFSET is 0
LimitOffset(ids, batch_size, offset) ==
    LET off == IF offset < 0 THEN 0 ELSE offset
        lim == IF batch_size < 0 THEN Len(ids) ELSE batch_size
        to == IF off + lim > Len(ids) THEN Len(ids) ELSE off + lim
    IN SubSeq(ids, off + 1, to)

\* what happens to one photo of the batch: requests.get or a later step
\* raises, the response is not 200, no tag is found, or a tag is found
Outcomes == {"exception", "non200", "no_tag", "tagged"}

\* the body of the loop over the batch; acc = [rows, updated]
AnnotatePhoto(acc, photo_id, outcome) ==
    IF outcome = "tagged"
    THEN [rows |-> [acc.rows EXCEPT ![photo_id].location_tag = FoundTag],
          updated |-> acc.updated + 1]
    ELSE acc

\* a variant of the loop that ends at the first photo that fails
RECURSIVE AnnotateBatchStopOnError(_, _, _)
AnnotateBatchStopOnError(acc, ids, outcome) ==
    IF ids = <<>> THEN acc
    ELSE IF outcome[Head(ids)] \in {"exception", "non200"} THEN acc
    ELSE AnnotateBatchStopOnError(AnnotatePhoto(acc, Head(ids), outcome[Head(ids)]),
                                  Tail(ids), outcome)

\* the loop over the batch
RECURSIVE AnnotateBatch(_, _, _)
AnnotateBatch(acc, ids, outcome) ==
    IF ids = <<>> THEN acc
    ELSE AnnotateBatch(AnnotatePhoto(acc, Head(ids), outcome[Head(ids)]),
                       Tail(ids), outcome)

BatchSizes == {-1, 1, 2}
Offsets == {0, 1}

\* POST /api/annotate-locations?batch_size=..&offset=..
AnnotateLocations(batch_size, offset) ==
    LET untagged == UntaggedIds(sqlite_photos)
        batch == LimitOffset(untagged, batch_size, offset)
    IN \E outcome \in [Range(batch) -> Outcomes] :
         LET res == AnnotateBatch([rows |-> sqlite_photos, updated |-> 0],
                                  batch, outcome)
         IN /\ sqlite_photos' = res.rows
            /\ last' = [op |-> "annotate", batch_size |-> batch_size,
                        offset |-> offset, pre |-> sqlite_photos,
                        batch |-> batch, outcome |-> outcome,
                        updated_this_batch |-> res.updated,
                        remaining_untagged |-> RemainingUntagged(res.rows),
                        total_untagged |-> Len(untagged)]
            /\ UNCHANGED <<flaskVars, workerVars, ormVars, userVars, procVars>>

NextAnnotate ==
    \/ \E tag \in {NULL, <<>>, NullText, FoundTag} : SqliteInsert(tag)
    \/ \E batch_size \in BatchSizes, offset \in Offsets :
         AnnotateLocations(batch_size, offset)

SpecAnnotate == Init /\ [][NextAnnotate]_vars

\* the photos a call changed
Annotated ==
    {i \in 1..Len(last.pre) : sqlite_photos[i] # last.pre[i]}

C13_ListingFailureIsAnError ==
    (last.op = "api_reindex" /\ last.list_fails) =>
        /\ last.code >= 400
        /\ mPhotos = last.pre_photos

\* C14: after a run of reindex_gcs that recorded no error, every Photo row
\* with a gcs_path holds the name of a blob of the listing.
C14_EveryPathIsListed ==
    (Reindexed /\ last.status = "success" /\ last.stats.errors = <<>>) =>
        \A p \in photos : p.gcs_path # NULL => p.gcs_path \in store

NoTotal == -1

\* the batch sizes the driver is started with
DriverBatchSizes == {0, 1, 2}

\* what the endpoint does while the driver runs: "reliable" answers 200 and
\* finds a tag for every photo of a batch, "unreliable" may do anything
Taggers == {"reliable", "unreliable"}

\* annotate_all_batches(api_url, batch_size)
DriverStart(batch_size, tagger) ==
    /\ driver.pc = "idle"
    /\ driver' = [pc |-> "running", batch_size |-> batch_size, offset |-> 0,
                  total |-> NoTotal, tagger |-> tagger]
    /\ last' = NoCall
    /\ UNCHANGED <<flaskVars, workerVars, ormVars, sqlite_photos, userVars>>
    /\ UNCHANGED <<gcs_client, startup>>

\* a variant of the bookkeeping that gives up when a batch tagged nothing
DriverAfterStopOnIdleBatch(d, data) ==
    IF data.updated_this_batch = 0 THEN [d EXCEPT !.pc = "stopped"]
    ELSE [d EXCEPT !.offset = 0, !.total = data.remaining_untagged]

\* the driver's variables after a 200 response with body data
DriverAfter(d, data) ==
    LET total == IF d.total = NoTotal THEN data.total_untagged ELSE d.total
        remaining == data.remaining_untagged
        offset == d.offset + d.batch_size
    IN IF remaining = 0 THEN [d EXCEPT !.pc = "stopped", !.total = total]
       ELSE IF offset >= total
            THEN [d EXCEPT !.offset = 0, !.total = remaining]
            ELSE [d EXCEPT !.offset = offset, !.total = total]

\* one pass of the while loop
DriverIteration ==
    /\ driver.pc = "running"
    /\ \E code \in IF driver.tagger = "reliable" THEN {200} ELSE {200, 500} :
         IF code # 200
         THEN /\ driver' = [driver EXCEPT !.pc = "stopped"]
              /\ last' = [op |-> "driver", code |-> code]
              /\ UNCHANGED sqlite_photos
         ELSE LET untagged == UntaggedIds(sqlite_photos)
                  batch == LimitOffset(untagged, driver.batch_size, driver.offset)
              IN \E outcome \in [Range(batch) ->
                                   IF driver.tagger = "reliable" THEN {"tagged"}
                                   ELSE Outcomes] :
                   LET res == AnnotateBatch([rows |-> sqlite_photos, updated |-> 0],
                                            batch, outcome)
                       data == [updated_this_batch |-> res.updated,
                                remaining_untagged |-> RemainingUntagged(res.rows),
                                total_untagged |-> Len(untagged)]
                   IN /\ sqlite_photos' = res.rows
                      /\ driver' = DriverAfter(driver, data)
                      /\ last' = [op |-> "driver", code |-> code,
                                  remaining_untagged |-> data.remaining_untagged]
    /\ UNCHANGED <<flaskVars, workerVars, ormVars, userVars, gcs_client, startup>>

NextDriver ==
    \/ \E tag \in {NULL, <<>>, NullText, FoundTag} : SqliteInsert(tag)
    \/ \E batch_size \in DriverBatchSizes, tagger \in Taggers :
         DriverStart(batch_size, tagger)
    \/ DriverIteration

\* the loop goes on as long as the process runs
SpecDriver == Init /\ [][NextDriver]_vars /\ WF_vars(DriverIteration)

FastApiMaxRetries == 5
FlaskMaxRetries == 3

max_retries(application) ==
    IF application = "fastapi" THEN FastApiMaxRetries ELSE FlaskMaxRetries

\* what one attempt can come to.  startup_event: create_db_engine returns
\* None, or create_all raises.  init_db: get_db_uri or connect raises, or
\* SELECT 1 does not give 1.
AttemptOutcomes(application) ==
    IF application = "fastapi" THEN {"ok", "engine_none", "raises"}
    ELSE {"ok", "raises", "bad_result"}

\* the process starts and enters the loop
StartupBegin(application) ==
    /\ startup.pc = "idle"
    /\ startup' = [pc |-> "attempt", application |-> application,
                   log |-> <<>>, sleeps |-> 0, result |-> "none"]
    /\ last' = NoCall
    /\ UNCHANGED <<flaskVars, workerVars, ormVars, sqlite_photos, userVars>>
    /\ UNCHANGED <<gcs_client, driver>>

\* a variant that compares the attempt number with max_retries + 1
AfterAttemptOneTooMany(s, outcome) ==
    LET log == Append(s.log, outcome)
    IN IF outcome = "ok"
       THEN [s EXCEPT !.log = log, !.pc = "done", !.result = "connected"]
       ELSE IF Len(log) = max_retries(s.application) + 1
            THEN [s EXCEPT !.log = log, !.pc = "done", !.result = "gave_up"]
            ELSE [s EXCEPT !.log = log, !.pc = "sleep", !.sleeps = @ + 1]

\* the loop's variables after one attempt: break or return on success;
\* after the last failed attempt break (startup_event) or raise (init_db);
\* otherwise time.sleep(retry_delay)
AfterAttempt(s, outcome) ==
    LET log == Append(s.log, outcome)
    IN IF outcome = "ok"
       THEN [s EXCEPT !.log = log, !.pc = "done", !.result = "connected"]
       ELSE IF Len(log) = max_retries(s.application)
            THEN [s EXCEPT !.log = log, !.pc = "done",
                           !.result = IF s.application = "fastapi"
                                      THEN "gave_up" ELSE "raised"]
            ELSE [s EXCEPT !.log = log, !.pc = "sleep", !.sleeps = @ + 1]

\* the body of the for loop up to the sleep
StartupAttempt ==
    /\ startup.pc = "attempt"
    /\ \E outcome \in AttemptOutcomes(startup.application) :
         startup' = AfterAttempt(startup, outcome)
    /\ last' = NoCall
    /\ UNCHANGED <<flaskVars, workerVars, ormVars, sqlite_photos, userVars>>
    /\ UNCHANGED <<gcs_client, driver>>

\* time.sleep(retry_delay) returns
StartupSleepEnds ==
    /\ startup.pc = "sleep"
    /\ startup' = [startup EXCEPT !.pc = "attempt"]
    /\ last' = NoCall
    /\ UNCHANGED <<flaskVars, workerVars, ormVars, sqlite_photos, userVars>>
    /\ UNCHANGED <<gcs_client, driver>>

NextStartup ==
    \/ \E application \in {"fastapi", "flask"} : StartupBegin(application)
    \/ StartupAttempt
    \/ StartupSleepEnds

\* an attempt returns or raises (connect_timeout), and a sleep ends
SpecStartup ==
    Init /\ [][NextStartup]_vars
         /\ WF_vars(StartupAttempt) /\ WF_vars(StartupSleepEnds)

\* C24: the startup database connection makes at most max_retries attempts
\* (5 in startup_event, 3 in init_db), stops at the first successful
\* attempt, sleeps only between two attempts, and always terminates.
C24_StartupLoopIsBounded ==
    /\ [](startup.pc # "idle" =>
            /\ Len(startup.log) <= max_retries(startup.application)
            /\ \A i \in 1..Len(startup.log) :
                 startup.log[i] = "ok" =>
                    (i = Len(startup.log) /\ startup.pc = "done")
            /\ startup.pc = "done" =>
                 /\ startup.sleeps = Len(startup.log) - 1
                 /\ startup.log[Len(startup.log)] = "ok"
                      \/ Len(startup.log) = max_retries(startup.application)
            /\ startup.pc # "done" => startup.sleeps = Len(startup.log))
    /\ (startup.pc # "idle") ~> (startup.pc = "done")

\* the loop of startup_event ended after four failed attempts and a
\* successful fifth one
C24_Witness ==
    /\ startup.pc = "done"
    /\ startup.application = "fastapi"
    /\ Len(startup.log) = FastApiMaxRetries
    /\ startup.result = "connected"
    /\ startup.sleeps = FastApiMaxRetries - 1

(***************************************************************************)
(* GCSClient of app/utils/gcs.py: one instance per process (__new__), its  *)
(* storage client and bucket created on the first read of the properties   *)
(* client and bucket.  A bucket name is "b"; the storage client and the    *)
(* bucket object are "client" and "bucket"; None is NULL.                  *)
(***************************************************************************)
BucketName == <<"b">>

\* GCSClient(bucket_name) with GCS_BUCKET = env in the environment
GcsInit(g, bucket_name, env) ==
    LET name == IF Truthy(bucket_name) THEN bucket_name ELSE env
    IN IF g.instance /\ g._initialized THEN g
       ELSE IF ~Truthy(name)
            THEN [instance |-> TRUE, _initialized |-> TRUE, bucket_name |-> name,
                  available |-> FALSE, _client |-> NULL, _bucket |-> NULL]
            ELSE [instance |-> TRUE, _initialized |-> TRUE, bucket_name |-> name,
                  available |-> TRUE, _client |-> NULL, _bucket |-> NULL]

\* the property client; ok says whether storage.Client(...) succeeds.
\* The result is the object after the read, the value read, and the number
\* of initialisation attempts the read made.
ClientProperty(g, ok) ==
    IF ~g.available THEN [g |-> g, value |-> NULL, attempts |-> 0]
    ELSE IF g._client = NULL
    THEN IF ok THEN [g |-> [g EXCEPT !._client = <<"client">>],
                     value |-> <<"client">>, attempts |-> 1]
         ELSE [g |-> [g EXCEPT !.available = FALSE], value |-> NULL, attempts |-> 1]
    ELSE [g |-> g, value |-> g._client, attempts |-> 0]

\* what the creation of the bucket object can come to
BucketOutcomes == {"ok", "bucket_raises", "exists_raises"}

\* the property bucket
BucketProperty(g, ok, outcome) ==
    IF ~g.available THEN [g |-> g, value |-> NULL, attempts |-> 0]
    ELSE LET c == ClientProperty(g, ok)
         IN IF c.value = NULL THEN c
            ELSE IF c.g._bucket # NULL
            THEN [g |-> c.g, value |-> c.g._bucket, attempts |-> c.attempts]
            ELSE IF outcome = "ok"
            THEN [g |-> [c.g EXCEPT !._bucket = <<"bucket">>],
                  value |-> <<"bucket">>, attempts |-> c.attempts + 1]
            ELSE IF outcome = "bucket_raises"
            THEN [g |-> [c.g EXCEPT !.available = FALSE],
                  value |-> NULL, attempts |-> c.attempts + 1]
            ELSE [g |-> [c.g EXCEPT !._bucket = <<"bucket">>, !.available = FALSE],
                  value |-> NULL, attempts |-> c.attempts + 1]

\* GCSClient(...) is called
GcsConstruct(bucket_name, env) ==
    /\ gcs_client' = GcsInit(gcs_client, bucket_name, env)
    /\ last' = [op |-> "construct", pre |-> gcs_client]
    /\ UNCHANGED <<flaskVars, workerVars, ormVars, sqlite_photos, userVars>>
    /\ UNCHANGED <<startup, driver>>

\* gcs_client.client is read
GcsReadClient(ok) ==
    /\ gcs_client.instance
    /\ LET r == ClientProperty(gcs_client, ok)
       IN /\ gcs_client' = r.g
          /\ last' = [op |-> "client", pre |-> gcs_client, value |-> r.value,
                      attempts |-> r.attempts]
    /\ UNCHANGED <<flaskVars, workerVars, ormVars, sqlite_photos, userVars>>
    /\ UNCHANGED <<startup, driver>>

\* gcs_client.bucket is read
GcsReadBucket(ok, outcome) ==
    /\ gcs_client.instance
    /\ LET r == BucketProperty(gcs_client, ok, outcome)
       IN /\ gcs_client' = r.g
          /\ last' = [op |-> "bucket", pre |-> gcs_client, value |-> r.value,
                      attempts |-> r.attempts]
    /\ UNCHANGED <<flaskVars, workerVars, ormVars, sqlite_photos, userVars>>
    /\ UNCHANGED <<startup, driver>>

\* gcs_client.upload_file(file_obj, destination_blob_name): self.bucket is
\* read first; without a bucket, or when the upload fails, it raises
GcsUploadFile(k, ok, outcome, fails) ==
    /\ gcs_client.instance
    /\ LET r == BucketProperty(gcs_client, ok, outcome)
           raised == r.value = NULL \/ fails
       IN /\ gcs_client' = r.g
          /\ store' = IF raised THEN store ELSE store \cup {k}
          /\ last' = [op |-> "upload_file", pre |-> gcs_client,
                      raised |-> raised, attempts |-> r.attempts]
    /\ UNCHANGED <<folders, photos, nextFolderId, nextPhotoId>>
    /\ UNCHANGED <<workerVars, ormVars, sqlite_photos, userVars, startup, driver>>

\* gcs_client.delete_file(blob_name): True, or False when it failed
GcsDeleteFile(k, ok, outcome, fails) ==
    /\ gcs_client.instance
    /\ LET r == BucketProperty(gcs_client, ok, outcome)
           deleted == r.value # NULL /\ ~fails /\ k \in store
       IN /\ gcs_client' = r.g
          /\ store' = IF deleted THEN store \ {k} ELSE store
          /\ last' = [op |-> "delete_file", pre |-> gcs_client,
                      value |-> deleted, attempts |-> r.attempts]
    /\ UNCHANGED <<folders, photos, nextFolderId, nextPhotoId>>
    /\ UNCHANGED <<workerVars, ormVars, sqlite_photos, userVars, startup, driver>>

(***************************************************************************)
(* GET /api/health of the FastAPI application.                             *)
(***************************************************************************)
\* the parameters of GCSClient.list_files besides self
ListFilesParameters == {"prefix"}

\* what SessionLocal() and SELECT 1 can come to
DatabaseOutcomes == {"one", "other", "raises"}

\* a variant that leaves the status as the checks set it
HealthStatusAsSet(services, degraded) ==
    IF degraded THEN "degraded" ELSE "healthy"

\* the status of the response, given the services found and whether a check
\* has set the status to 'degraded'
HealthStatus(services, degraded) ==
    IF ~(services.database /\ services.storage) THEN "unhealthy"
    ELSE IF degraded THEN "degraded" ELSE "healthy"

\* health_check; GCS_BUCKET says whether settings.GCS_BUCKET is set, fails
\* whether the listing of the bucket raises inside list_files
HealthCheck(database, GCS_BUCKET, fails) ==
    LET db_ok == database = "one"
        db_raised == database = "raises"
        checked == GCS_BUCKET /\ gcs_client.instance /\ gcs_client.available
        \* list_files(prefix="photos/", max_results=1)
        type_error == {"prefix", "max_results"} \ ListFilesParameters # {}
        files == ListFiles(store, PhotosPrefix, fails)
        storage_ok == checked /\ ~type_error /\ files # NULL
        storage_raised == checked /\ type_error
        services == [database |-> db_ok, storage |-> storage_ok]
        degraded == db_raised \/ storage_raised
    IN /\ last' = [op |-> "health", database |-> database,
                   GCS_BUCKET |-> GCS_BUCKET,
                   degraded |-> degraded, services |-> services,
                   status |-> HealthStatus(services, degraded)]
       /\ UNCHANGED <<flaskVars, workerVars, ormVars, sqlite_photos, userVars>>
       /\ UNCHANGED procVars

NextGcs ==
    \/ \E bucket_name \in {NULL, BucketName}, env \in {NULL, BucketName} :
         GcsConstruct(bucket_name, env)
    \/ \E ok \in BOOLEAN : GcsReadClient(ok)
    \/ \E ok \in BOOLEAN, outcome \in BucketOutcomes : GcsReadBucket(ok, outcome)
    \/ \E k \in PhotoKeys, ok \in BOOLEAN, outcome \in BucketOutcomes,
          fails \in BOOLEAN : GcsUploadFile(k, ok, outcome, fails)
    \/ \E k \in PhotoKeys, ok \in BOOLEAN, outcome \in BucketOutcomes,
          fails \in BOOLEAN : GcsDeleteFile(k, ok, outcome, fails)
    \/ \E database \in DatabaseOutcomes, GCS_BUCKET \in BOOLEAN, fails \in BOOLEAN :
         HealthCheck(database, GCS_BUCKET, fails)

SpecGcs == Init /\ [][NextGcs]_vars

\* C22: GET /api/health always answers with status 'healthy' or 'unhealthy':
\* 'healthy' exactly when services.database and services.storage are both
\* true, 'unhealthy' otherwise.
C22_HealthyIffBothServices ==
    last.op = "health" =>
        /\ last.status \in {"healthy", "unhealthy"}
        /\ last.status = "healthy" <=>
             (last.services.database /\ last.services.storage)

\* a check raised and set the status to 'degraded', and the response still
\* says 'unhealthy'
C22_Witness ==
    /\ last.op = "health"
    /\ last.degraded
    /\ gcs_client.instance /\ gcs_client.available
    /\ last.database = "one"
    /\ last.status = "unhealthy"

\* C25: GCSClient is one object per process whose client and bucket are
\* created on first access, with retry on access: after an initialisation
\* attempt has failed, a later read of client or bucket attempts the
\* initialisation again.
C25_RetryOnAccess ==
    (/\ last.op \in {"client", "bucket"}
     /\ Truthy(last.pre.bucket_name)
     /\ ~last.pre.available)
        => last.attempts > 0

(***************************************************************************)
(* Users of the FastAPI application.  User.photos and User.folders are     *)
(* relationships with cascade "all, delete-orphan"; photos.owner_id and    *)
(* folders.owner_id are foreign keys to users.id with ON DELETE CASCADE,   *)
(* not nullable.  The database is the PostgreSQL one of DATABASE_URI,      *)
(* which enforces the foreign keys.  In the runs with users the rows of    *)
(* mFolders and mPhotos carry the column owner_id as well.                 *)
(***************************************************************************)
MaxOrmUsers == 2    \* users ever created
MaxOwnedFolders == 1    \* folders ever created in the runs with users

\* User.create
OrmUserCreate ==
    /\ mNextUserId <= MaxOrmUsers
    /\ mUsers' = mUsers \cup {[id |-> mNextUserId]}
    /\ mNextUserId' = mNextUserId + 1
    /\ session' = {}
    /\ last' = NoCall
    /\ UNCHANGED <<mFolders, mPhotos, mNextFolderId, mNextPhotoId>>
    /\ UNCHANGED <<flaskVars, workerVars, sqlite_photos, procVars>>

\* Folder.create for an owner; the insert is refused (IntegrityError) when
\* no user has that id
OrmFolderCreateOwned(owner_id, name) ==
    /\ mNextFolderId <= MaxOwnedFolders
    /\ IF \E u \in mUsers : u.id = owner_id
       THEN /\ mFolders' = mFolders \cup
                  {[id |-> mNextFolderId, name |-> name, owner_id |-> owner_id]}
            /\ mNextFolderId' = mNextFolderId + 1
       ELSE UNCHANGED <<mFolders, mNextFolderId>>
    /\ session' = {}
    /\ last' = NoCall
    /\ UNCHANGED <<mPhotos, mNextPhotoId, userVars>>
    /\ UNCHANGED <<flaskVars, workerVars, sqlite_photos, procVars>>

\* Photo.create for an owner, in a folder or in none; the insert is refused
\* when no user has the owner's id or no folder has the folder's id
OrmPhotoCreateOwned(owner_id, folder_id) ==
    /\ mNextPhotoId <= MaxOrmPhotos
    /\ LET accepted == /\ \E u \in mUsers : u.id = owner_id
                       /\ folder_id = NullId \/ \E f \in mFolders : f.id = folder_id
       IN IF accepted
          THEN /\ mPhotos' = mPhotos \cup
                     {[id |-> mNextPhotoId, folder_id |-> folder_id,
                       gcs_path |-> NULL, owner_id |-> owner_id]}
               /\ mNextPhotoId' = mNextPhotoId + 1
          ELSE UNCHANGED <<mPhotos, mNextPhotoId>>
    /\ last' = NoCall
    /\ session' = {}
    /\ UNCHANGED <<mFolders, mNextFolderId, userVars>>
    /\ UNCHANGED <<flaskVars, workerVars, sqlite_photos, procVars>>

\* Photo.delete(db, id=id)
OrmPhotoDelete(id) ==
    /\ \E p \in mPhotos : p.id = id
    /\ mPhotos' = {p \in mPhotos : p.id # id}
    /\ session' = {}
    /\ last' = NoCall
    /\ UNCHANGED <<mFolders, mNextFolderId, mNextPhotoId, userVars>>
    /\ UNCHANGED <<flaskVars, workerVars, sqlite_photos, procVars>>

\* a variant that deletes the row of the user and nothing else
UserDeleteRowOnly(us, fs, ps, sess, id) ==
    [users |-> {u \in us : u.id # id}, folders |-> fs, photos |-> ps]

\* User.delete(db, id) on the tables: [users, folders, photos].  The unit
\* of work deletes the members of user.photos and of user.folders, which it
\* loads for that; a deleted folder takes the loaded members of its photos
\* collection with it and leaves the others to ON DELETE SET NULL; then the
\* row of the user goes, and ON DELETE CASCADE removes what still refers to
\* it.
UserDelete(us, fs, ps, sess, id) ==
    IF ~\E u \in us : u.id = id
    THEN [users |-> us, folders |-> fs, photos |-> ps]
    ELSE LET own_folders == {f.id : f \in {g \in fs : g.owner_id = id}}
             with_folders == UNION {CascadedPhotos(sess, fid) : fid \in own_folders}
             orm_photos == {p \in ps : p.owner_id # id /\ p.id \notin with_folders}
             nulled == {IF p.folder_id \in own_folders
                        THEN [p EXCEPT !.folder_id = NullId] ELSE p :
                        p \in orm_photos}
             orm_folders == {f \in fs : f.id \notin own_folders}
         IN [users |-> {u \in us : u.id # id},
             folders |-> {f \in orm_folders : f.owner_id # id},
             photos |-> {p \in nulled : p.owner_id # id}]

OrmUserDelete(id) ==
    /\ LET r == UserDelete(mUsers, mFolders, mPhotos, session, id)
       IN /\ mUsers' = r.users
          /\ mFolders' = r.folders
          /\ mPhotos' = r.photos
    /\ session' = {}
    /\ last' = [op |-> "user_delete", id |-> id,
                existed |-> (\E u \in mUsers : u.id = id),
                pre_photos |-> {p.id : p \in {q \in mPhotos : q.owner_id = id}}]
    /\ UNCHANGED <<mNextFolderId, mNextPhotoId, mNextUserId>>
    /\ UNCHANGED <<flaskVars, workerVars, sqlite_photos, procVars>>

NextUsers ==
    \/ OrmUserCreate
    \/ \E owner_id \in 1..MaxOrmUsers : OrmFolderCreateOwned(owner_id, NameN)
    \/ \E owner_id \in 1..MaxOrmUsers,
          folder_id \in {NullId} \cup {f.id : f \in mFolders} :
         OrmPhotoCreateOwned(owner_id, folder_id)
    \/ \E f \in mFolders : OrmLoadPhotos(f.id)
    \/ \E p \in mPhotos : OrmPhotoDelete(p.id)
    \/ \E f \in mFolders : OrmFolderDelete(f.id)
    \/ \E u \in mUsers : OrmUserDelete(u.id)

SpecUsers == Init /\ [][NextUsers]_vars

HasSegmentAfterFolder(k, folder) ==
    LET parts == Split(k, "/")
    IN /\ Len(parts) >= 3
       /\ parts[1] = <<"f", "o", "l", "d", "e", "r", "s">>
       /\ parts[2] = folder

\* C26: reindex_gcs creates a Folder row named N only when the listing holds
\* a key with folder segment N followed by a further path segment; a key
\* folders/N with nothing after N never causes a Folder row N.
C26_FolderOnlyForKeyWithFile ==
    Reindexed =>
        \A f \in folders \ last.pre_folders :
            \E k \in store : HasSegmentAfterFolder(k, f.name)

(***************************************************************************)
(* The orphan cleanup of reindex_gcs, over rows whose gcs_path a client    *)
(* has posted: none, the key of a file, or the key of a folder marker.     *)
(***************************************************************************)
CleanupKeys == {Key(NameN, FileA), Key(NameN, <<>>)}

NextCleanup ==
    \/ \E k \in CleanupKeys : PutBlob(k)
    \/ \E k \in store : DeleteBlob(k)
    \/ \E f \in folders, gcs_path \in {NULL} \cup CleanupKeys :
         HandlePhotosPost(f.id, FileA, gcs_path)
    \/ \E env \in {NoFaults, [NoFaults EXCEPT !.orphan = TRUE]} :
         ReindexFaulty(env)

SpecCleanup == Init /\ [][NextCleanup]_vars

\* C27: reindex_gcs deletes only Photo rows whose gcs_path is absent from
\* the listing its cleanup obtained; a row whose blob is in that listing and
\* a row with null gcs_path are never deleted, and a failure of the cleanup
\* listing deletes nothing.
C27_OnlyUnlistedRowsDeleted ==
    Reindexed =>
        \A p \in last.pre_photos \ photos :
            /\ p.gcs_path # NULL
            /\ p.gcs_path \notin store
            /\ ~last.env.orphan

(***************************************************************************)
(* The upload and delete handlers of revision B, step by step, as the      *)
(* worker threads interleave them.  Revision B's Photo holds the name of   *)
(* its folder, so the rows here are [id, folder, filename, gcs_path].      *)
(* _db_lock is held by add_folder_to_db and add_photo_to_db for the length *)
(* of their one transaction, and by delete_photo_from_db and               *)
(* delete_folder_from_db until their blobs are deleted.                    *)
(***************************************************************************)
\* uuid4().hex[:8] of the uploads; a request gets one that no blob, row or
\* other request holds
StepUuids == {<<"0">>, <<"1">>}

\* a variant of upload_photos that registers the row before it writes the
\* blob
UploadOrderRowFirst == <<"folder", "row", "blob">>

\* the order of the steps of upload_photos for one file: add_folder_to_db,
\* upload_to_gcs, add_photo_to_db
UploadOrder == <<"folder", "blob", "row">>

\* the step after step pc in order, "done" after the last
StepAfter(order, pc) ==
    LET i == CHOOSE j \in 1..Len(order) : order[j] = pc
    IN IF i = Len(order) THEN "done" ELSE order[i + 1]

\* the request of worker w after its step pc
Advance(w, order) ==
    IF StepAfter(order, reqs[w].pc) = "done" THEN Idle
    ELSE [reqs[w] EXCEPT !.pc = StepAfter(order, reqs[w].pc)]

\* the blob paths that requests in flight have chosen
PathsInFlight == {reqs[w].path : w \in {v \in Workers : reqs[v].kind = "upload_file"}}

\* POST /api/upload with one file
StartUploadFile(w, folder_in, filename, uuid) ==
    LET folder == SecureFilename(folder_in)
        path == BlobPath(folder, [filename |-> filename, uuid |-> uuid])
    IN /\ ~Busy(w)
       /\ folder # <<>>
       /\ path \notin store \cup PathsInFlight
       /\ \A p \in photos : p.gcs_path # path
       /\ reqs' = [reqs EXCEPT ![w] = [kind |-> "upload_file", pc |-> UploadOrder[1],
                                       folder |-> folder,
                                       name |-> SecureFilename(filename),
                                       path |-> path]]
       /\ UNCHANGED <<flaskVars, last, db_lock, ormVars, sqlite_photos>>
       /\ UNCHANGED <<userVars, procVars>>

\* add_folder_to_db(folder)
UploadAddFolder(w) ==
    /\ reqs[w].kind = "upload_file" /\ reqs[w].pc = "folder"
    /\ db_lock = 0
    /\ LET db == AddFolderToDbB(DB, reqs[w].folder)
       IN InBounds(db) /\ SetDB(db)
    /\ reqs' = [reqs EXCEPT ![w] = Advance(w, UploadOrder)]
    /\ UNCHANGED <<store, last, db_lock, ormVars, sqlite_photos, userVars, procVars>>

\* upload_to_gcs(file, folder); when it raises, the file is given up
UploadWriteBlob(w, ok) ==
    /\ reqs[w].kind = "upload_file" /\ reqs[w].pc = "blob"
    /\ store' = IF ok THEN store \cup {reqs[w].path} ELSE store
    /\ reqs' = [reqs EXCEPT ![w] = IF ok THEN Advance(w, UploadOrder) ELSE Idle]
    /\ UNCHANGED <<folders, photos, nextFolderId, nextPhotoId>>
    /\ UNCHANGED <<last, db_lock, ormVars, sqlite_photos, userVars, procVars>>

\* add_photo_to_db(folder, name, url, mimetype, gcs_path); when it raises,
\* or the process ends before it, the file is given up
UploadAddRow(w, ok) ==
    /\ reqs[w].kind = "upload_file" /\ reqs[w].pc = "row"
    /\ db_lock = 0
    /\ LET db == IF ok
                 THEN [DB EXCEPT !.photos = @ \cup {[id |-> DB.np,
                                                     folder |-> reqs[w].folder,
                                                     filename |-> reqs[w].name,
                                                     gcs_path |-> reqs[w].path]},
                                 !.np = @ + 1]
                 ELSE DB
       IN InBounds(db) /\ SetDB(db)
    /\ reqs' = [reqs EXCEPT ![w] = IF ok THEN Advance(w, UploadOrder) ELSE Idle]
    /\ UNCHANGED <<store, last, db_lock, ormVars, sqlite_photos, userVars, procVars>>

\* DELETE /api/folder/<folder>/<name>
StartDeletePhoto(w, folder_in, name_in) ==
    /\ ~Busy(w)
    /\ reqs' = [reqs EXCEPT ![w] = [kind |-> "delete_photo", pc |-> "row",
                                    folder |-> SecureFilename(folder_in),
                                    name |-> SecureFilename(name_in)]]
    /\ UNCHANGED <<flaskVars, last, db_lock, ormVars, sqlite_photos>>
    /\ UNCHANGED <<userVars, procVars>>

\* delete_photo_from_db, the database part: the first row of the folder and
\* name is deleted; without one the request is over
DeletePhotoRow(w) ==
    /\ reqs[w].kind = "delete_photo" /\ reqs[w].pc = "row"
    /\ db_lock = 0
    /\ LET found == {p \in photos : p.folder = reqs[w].folder
                                      /\ p.filename = reqs[w].name}
       IN IF found = {}
          THEN /\ reqs' = [reqs EXCEPT ![w] = Idle]
               /\ UNCHANGED <<photos, db_lock>>
          ELSE \E p \in found :
                 /\ photos' = photos \ {p}
                 /\ db_lock' = w
                 /\ reqs' = [reqs EXCEPT ![w] = [kind |-> "delete_photo",
                                                 pc |-> "blob",
                                                 todo |-> {p.gcs_path}]]
    /\ UNCHANGED <<store, folders, nextFolderId, nextPhotoId>>
    /\ UNCHANGED <<last, ormVars, sqlite_photos, userVars, procVars>>

\* DELETE /api/folder/<folder>
StartDeleteFolder(w, folder_in) ==
    /\ ~Busy(w)
    /\ reqs' = [reqs EXCEPT ![w] = [kind |-> "delete_folder", pc |-> "rows",
                                    folder |-> SecureFilename(folder_in)]]
    /\ UNCHANGED <<flaskVars, last, db_lock, ormVars, sqlite_photos>>
    /\ UNCHANGED <<userVars, procVars>>

\* delete_folder_from_db, the database part: the rows of the folder and the
\* folder row are deleted
DeleteFolderRowsStep(w) ==
    /\ reqs[w].kind = "delete_folder" /\ reqs[w].pc = "rows"
    /\ db_lock = 0
    /\ LET rows == {p \in photos : p.folder = reqs[w].folder}
       IN /\ photos' = photos \ rows
          /\ folders' = folders \ FoldersNamed(DB, reqs[w].folder)
          /\ reqs' = [reqs EXCEPT ![w] = [kind |-> "delete_folder", pc |-> "blob",
                                          todo |-> {p.gcs_path : p \in rows}]]
    /\ db_lock' = w
    /\ UNCHANGED <<store, nextFolderId, nextPhotoId>>
    /\ UNCHANGED <<last, ormVars, sqlite_photos, userVars, procVars>>

\* blob.delete() for the next path of a delete request; after the last one,
\* or when it raises, the request is over and _db_lock is released
DeleteNextBlob(w, ok) ==
    /\ reqs[w].kind \in {"delete_photo", "delete_folder"} /\ reqs[w].pc = "blob"
    /\ db_lock = w
    /\ IF reqs[w].todo = {} \/ ~ok
       THEN /\ reqs' = [reqs EXCEPT ![w] = Idle]
            /\ db_lock' = 0
            /\ UNCHANGED store
       ELSE \E path \in reqs[w].todo :
              /\ store' = store \ {path}
              /\ reqs' = [reqs EXCEPT ![w].todo = @ \ {path}]
              /\ UNCHANGED db_lock
    /\ UNCHANGED <<folders, photos, nextFolderId, nextPhotoId>>
    /\ UNCHANGED <<last, ormVars, sqlite_photos, userVars, procVars>>

NextSteps ==
    \/ \E w \in Workers, uuid \in StepUuids :
         StartUploadFile(w, <<"/", "C">>, FileA, uuid)
    \/ \E w \in Workers : UploadAddFolder(w)
    \/ \E w \in Workers, ok \in BOOLEAN : UploadWriteBlob(w, ok)
    \/ \E w \in Workers, ok \in BOOLEAN : UploadAddRow(w, ok)
    \/ \E w \in Workers : StartDeletePhoto(w, NameC, FileA)
    \/ \E w \in Workers : DeletePhotoRow(w)
    \/ \E w \in Workers : StartDeleteFolder(w, NameC)
    \/ \E w \in Workers : DeleteFolderRowsStep(w)
    \/ \E w \in Workers, ok \in BOOLEAN : DeleteNextBlob(w, ok)

SpecSteps == Init /\ [][NextSteps]_vars

\* C29: in every reachable state of any interleaving of upload_photos,
\* delete_photo_from_db and delete_folder_from_db, a failure between their
\* two steps included, every Photo row created by upload_photos has its
\* blob in the object store.
C29_EveryRowHasItsBlob ==
    \A p \in photos : p.gcs_path \in store

\* an uploaded row is in the table with its blob while a delete request has
\* deleted another row and not yet its blob
C29_Witness ==
    /\ photos # {}
    /\ \A p \in photos : p.gcs_path \in store
    /\ \E w \in Workers : /\ reqs[w].kind = "delete_photo"
                          /\ reqs[w].pc = "blob"
                          /\ reqs[w].todo # {}
                          /\ reqs[w].todo \subseteq store

(***************************************************************************)
(* Revision A, reindex_gcs served by several worker threads at once, step  *)
(* by step: add_folder_to_db for a folder of the listing, then for each    *)
(* blob of the folder the look-up of add_photo_to_db and, as a separate    *)
(* step, its db.add and db.commit.  Revision A takes no lock and table     *)
(* 'photos' has no unique constraint on (folder_id, filename).             *)
(***************************************************************************)
\* the blobs the bucket is given in these runs
RaceKeys == {Key(NameC, FileA), Key(NameN, FileA)}

\* the blobs of a folder that the loop does not skip
BlobsToProcess(st, folder_name) ==
    SelectSeq(ListBlobs(st, FoldersPrefix \o folder_name \o <<"/">>),
              LAMBDA name : ~SkipBlob(name))

\* the request after the blob at the head of r.blobs is done: the next blob
\* of the folder, else the next folder, else the end of the request
AfterBlob(r) ==
    IF Len(r.blobs) > 1
    THEN [r EXCEPT !.pc = "lookup", !.blobs = Tail(@)]
    ELSE IF Len(r.folders) > 1
         THEN [r EXCEPT !.pc = "folder", !.folders = Tail(@), !.blobs = <<>>]
         ELSE Idle

\* POST /api/reindex-gcs: the first pass over the listing
StartReindexPhotos(w) ==
    /\ ~Busy(w)
    /\ FoldersOfListing(store) # {}
    /\ reqs' = [reqs EXCEPT ![w] = [kind |-> "reindex_photos", pc |-> "folder",
                                    folders |-> Sorted(FoldersOfListing(store)),
                                    blobs |-> <<>>]]
    /\ UNCHANGED <<flaskVars, last, db_lock, ormVars, sqlite_photos, userVars, procVars>>

\* add_folder_to_db(folder_name) and the listing of the folder's blobs
ReindexAddFolder(w) ==
    /\ Busy(w)
    /\ reqs[w].kind = "reindex_photos" /\ reqs[w].pc = "folder"
    /\ LET folder_name == Head(reqs[w].folders)
           r == AddFolderToDbA(DB, folder_name)
           blobs == IF r.success THEN BlobsToProcess(store, folder_name) ELSE <<>>
       IN /\ InBounds(r.db)
          /\ SetDB(r.db)
          /\ reqs' = [reqs EXCEPT ![w] =
                        IF blobs # <<>>
                        THEN [reqs[w] EXCEPT !.pc = "lookup", !.blobs = blobs]
                        ELSE AfterBlob(reqs[w])]
    /\ UNCHANGED <<store, last, db_lock, ormVars, sqlite_photos, userVars, procVars>>

\* add_photo_to_db up to its return or its Photo(...): the two queries, the
\* folder of the name and the photo of (folder_id, filename); no folder of
\* the name or an existing row end the call, else the insert is next
LookUpPhoto(w) ==
    /\ Busy(w)
    /\ reqs[w].kind = "reindex_photos" /\ reqs[w].pc = "lookup"
    /\ LET name == Head(reqs[w].blobs)
           parts == Split(name, "/")
           filename == parts[Len(parts)]
           found == FoldersNamed(DB, Head(reqs[w].folders))
       IN IF found = {}
          THEN reqs' = [reqs EXCEPT ![w] = AfterBlob(reqs[w])]
          ELSE LET folder == CHOOSE f \in found : TRUE
               IN IF PhotoExists(DB, folder.id, filename, name)
                  THEN reqs' = [reqs EXCEPT ![w] = AfterBlob(reqs[w])]
                  ELSE reqs' = [reqs EXCEPT ![w] =
                                  [kind |-> "reindex_photos", pc |-> "insert",
                                   folders |-> reqs[w].folders,
                                   blobs |-> reqs[w].blobs,
                                   folder_id |-> folder.id]]
    /\ UNCHANGED <<flaskVars, last, db_lock, ormVars, sqlite_photos, userVars, procVars>>

\* add_photo_to_db, db.add(new_photo); db.commit()
InsertPhoto(w) ==
    /\ Busy(w)
    /\ reqs[w].kind = "reindex_photos" /\ reqs[w].pc = "insert"
    /\ LET name == Head(reqs[w].blobs)
           parts == Split(name, "/")
       IN /\ nextPhotoId <= MaxPhotoRows
          /\ photos' = photos \cup {[id |-> nextPhotoId,
                                     folder_id |-> reqs[w].folder_id,
                                     filename |-> parts[Len(parts)],
                                     gcs_path |-> name]}
          /\ nextPhotoId' = nextPhotoId + 1
    /\ reqs' = [reqs EXCEPT ![w] =
                  AfterBlob([kind |-> "reindex_photos", pc |-> "insert",
                             folders |-> reqs[w].folders,
                             blobs |-> reqs[w].blobs])]
    /\ UNCHANGED <<store, folders, nextFolderId>>
    /\ UNCHANGED <<last, db_lock, ormVars, sqlite_photos, userVars, procVars>>

NextPhotoRace ==
    \/ \E k \in RaceKeys : PutBlob(k)
    \/ \E w \in Workers : StartReindexPhotos(w)
    \/ \E w \in Workers : ReindexAddFolder(w)
    \/ \E w \in Workers : LookUpPhoto(w)
    \/ \E w \in Workers : InsertPhoto(w)

SpecPhotoRace == Init /\ [][NextPhotoRace]_vars

\* C28: in every reachable state of reindex_gcs requests running at the
\* same time over the same listing, no two Photo rows have the same
\* (folder_id, filename).
C28_OneRowPerFolderAndFilename ==
    \A p \in photos, q \in photos :
        p.folder_id = q.folder_id /\ p.filename = q.filename => p = q

====
